---------------------------- MODULE Spec2Model ----------------------------
(***************************************************************************)
(* Model of the IoT node energy simulator (src/node_simulator.py) and of   *)
(* the orchestration decision function (src/llm_orchestrator.py).          *)
(*                                                                         *)
(* Fixed-point units (the source uses Python floats):                      *)
(*   energy             1e-5 J        power              1e-5 W            *)
(*   harvest_potential  tenths        data_uncertainty   1e-5 in NodeState *)
(*   battery_percent    hundredths of a percent (round(.., 2))             *)
(*   data_uncertainty   1e-4 in a snapshot      (round(.., 4))             *)
(*   duration_s         whole seconds                                      *)
(***************************************************************************)
EXTENDS Integers, Sequences, FiniteSets, TLC

VARIABLES
    state,          \* IoTNodeSimulator.state : NodeState
    now,            \* the wall clock read by datetime.now()
    last_op,        \* the call of IoTNodeSimulator that ran last, with its argument
    returned,       \* the dict the last to_json serialised, None after a mutation
    network_state,  \* simulate_llm_api_call: the parsed list of node dicts
    idx,            \* simulate_llm_api_call: position of the for loop
    best_candidate, \* simulate_llm_api_call: local best_candidate
    max_uncertainty,\* simulate_llm_api_call: local max_uncertainty
    pc,             \* simulate_llm_api_call: "loop" or "done"
    result          \* simulate_llm_api_call: the dict returned, or the exception raised

node_vars == <<state, now, last_op, returned>>
llm_vars == <<network_state, idx, best_candidate, max_uncertainty, pc, result>>
vars == <<state, now, last_op, returned,
          network_state, idx, best_candidate, max_uncertainty, pc, result>>

\* Python's None; every dict of the model is a record, so None is one too.
None == [none |-> TRUE]

(***************************************************************************)
(* src/node_simulator.py                                                   *)
(***************************************************************************)

\* POWER_CONSUMPTION, in 1e-5 W.
POWER_CONSUMPTION ==
    [SLEEP |-> 1, WAKE_LISTEN |-> 5000, SENSE_LOW |-> 2000,
     SENSE_HIGH |-> 15000, TRANSMIT |-> 25000]

\* HARVEST_RATE_MAX = 0.005 W, in 1e-5 W.
HARVEST_RATE_MAX == 500

\* MAX_CAPACITY = 3600 J, in 1e-5 J.
MAX_CAPACITY == 360000000

\* Number of update_state calls explored.
MaxUpdates == 2

NodeIds == {"Node_42", "Node_11"}

\* initial_capacity: the default, MAX_CAPACITY * 0.2778 of the orchestrator's
\* main block, and one value on each side of [0, MAX_CAPACITY].
InitialCapacities ==
    {MAX_CAPACITY, 2778 * 36000, MAX_CAPACITY + 36000, 0 - 36000}

\* new_policy arguments: the five policies and a string that is none of them.
PolicyArgs == DOMAIN POWER_CONSUMPTION \cup {"REBOOT"}

\* duration_s arguments (seconds); the source does not reject a negative one.
Durations == {60, 36000, 0 - 60}

\* harvest_potential written by the caller (tenths): 0.0, 0.8.
HarvestValues == {0, 8}

\* data_uncertainty written by the caller (1e-5): 0.79996.
UncertaintyValues == {79996}

\* dict.get(key, default)
Get(d, key, default) == IF key \in DOMAIN d THEN d[key] ELSE default

Min(a, b) == IF a <= b THEN a ELSE b
Max(a, b) == IF a >= b THEN a ELSE b

\* round(x, ndigits) for x = n / d: to the nearest integer, ties to even.
Round(n, d) ==
    LET q == n \div d
        r == n % d
    IN  IF 2 * r < d THEN q
        ELSE IF 2 * r > d THEN q + 1
        ELSE IF q % 2 = 0 THEN q ELSE q + 1

\* NodeState(node_id=node_id, battery_joules=initial_capacity)
NodeState(node_id, battery_joules) ==
    [node_id |-> node_id,
     battery_joules |-> battery_joules,
     current_policy |-> "SLEEP",
     last_wake_time |-> 0,
     harvest_potential |-> 0,
     data_uncertainty |-> 50000]

\* Variant of CalculatePowerChange that leaves the harvest out.
CalculatePowerChangeNoHarvest(s) ==
    0 - Get(POWER_CONSUMPTION, s.current_policy, POWER_CONSUMPTION["SLEEP"])

\* IoTNodeSimulator._calculate_power_change
CalculatePowerChange(s) ==
    LET P_consume == Get(POWER_CONSUMPTION, s.current_policy, POWER_CONSUMPTION["SLEEP"])
        P_harvest == (s.harvest_potential * HARVEST_RATE_MAX) \div 10
    IN  P_harvest - P_consume

\* IoTNodeSimulator.update_state: the NodeState it leaves.
UpdateState(s, duration_s, t) ==
    LET energy_change_rate == CalculatePowerChange(s)
        energy_change == energy_change_rate * duration_s
        added == s.battery_joules + energy_change
    IN  [s EXCEPT !.battery_joules = Max(0, Min(MAX_CAPACITY, added)),
                  !.last_wake_time = t]

\* Variant of SetPolicy without the membership test.
SetPolicyUnchecked(s, new_policy) == [s EXCEPT !.current_policy = new_policy]

\* IoTNodeSimulator.set_policy: the NodeState it leaves.
SetPolicy(s, new_policy) ==
    IF new_policy \in DOMAIN POWER_CONSUMPTION
    THEN [s EXCEPT !.current_policy = new_policy]
    ELSE s

\* Variant of StateDict that truncates battery_percent instead of rounding it.
StateDictTruncated(s) ==
    [node_id |-> s.node_id,
     battery_percent |-> s.battery_joules \div (MAX_CAPACITY \div 10000),
     current_policy |-> s.current_policy,
     harvest_potential |-> s.harvest_potential,
     data_uncertainty |-> Round(s.data_uncertainty, 10),
     max_capacity_joules |-> MAX_CAPACITY]

\* IoTNodeSimulator.to_json: state_dict.
StateDict(s) ==
    [node_id |-> s.node_id,
     battery_percent |-> Round(s.battery_joules, MAX_CAPACITY \div 10000),
     current_policy |-> s.current_policy,
     harvest_potential |-> s.harvest_potential,
     data_uncertainty |-> Round(s.data_uncertainty, 10),
     max_capacity_joules |-> MAX_CAPACITY]

NodeInit ==
    /\ \E id \in NodeIds, c \in InitialCapacities :
          /\ state = NodeState(id, c)
          /\ last_op = [op |-> "__init__", arg |-> c]
    /\ now = 0
    /\ returned = None

update_state(duration_s) ==
    /\ now < MaxUpdates
    /\ now' = now + 1
    /\ state' = UpdateState(state, duration_s, now')
    /\ last_op' = [op |-> "update_state", arg |-> duration_s]
    /\ returned' = None
    /\ UNCHANGED llm_vars

set_policy(new_policy) ==
    /\ state' = SetPolicy(state, new_policy)
    /\ last_op' = [op |-> "set_policy", arg |-> new_policy]
    /\ returned' = None
    /\ UNCHANGED <<now, llm_vars>>

to_json ==
    /\ returned' = StateDict(state)
    /\ last_op' = [op |-> "to_json"]
    /\ UNCHANGED <<state, now, llm_vars>>

\* The caller's write  node.state.harvest_potential = h.
write_harvest_potential(h) ==
    /\ state' = [state EXCEPT !.harvest_potential = h]
    /\ last_op' = [op |-> "harvest_potential", arg |-> h]
    /\ returned' = None
    /\ UNCHANGED <<now, llm_vars>>

\* The caller's write  node.state.data_uncertainty = u.
write_data_uncertainty(u) ==
    /\ state' = [state EXCEPT !.data_uncertainty = u]
    /\ last_op' = [op |-> "data_uncertainty", arg |-> u]
    /\ returned' = None
    /\ UNCHANGED <<now, llm_vars>>

(***************************************************************************)
(* src/llm_orchestrator.py                                                 *)
(***************************************************************************)

\* MIN_BATTERY_PERCENT = 20.0, in hundredths of a percent.
MIN_BATTERY_PERCENT == 2000

\* The 0.6 of "max_uncertainty > 0.6", in 1e-4.
UNCERTAINTY_ACT_THRESHOLD == 6000

\* The 0.7 of "harvest_potential > 0.7", in tenths.
HARVEST_HIGH_THRESHOLD == 7

\* Longest network_state explored.
MaxNodes == 2

\* The empty dict {}.
EmptyDict == [k \in {} |-> 0]

\* The node dicts of network_state: each of the four keys the function reads
\* is present or missing.  battery_percent 19.99 / 20.0, harvest_potential
\* 0.7 / 0.9, data_uncertainty 0.6 / 0.8.
NodeDicts ==
    {a @@ b @@ c @@ d :
        a \in {EmptyDict} \cup {[node_id |-> n] : n \in NodeIds},
        b \in {EmptyDict} \cup {[battery_percent |-> x] : x \in {1999, 2000}},
        c \in {EmptyDict} \cup {[harvest_potential |-> x] : x \in {7, 9}},
        d \in {EmptyDict} \cup {[data_uncertainty |-> x] : x \in {6000, 8000}}}

NetworkStates == UNION {[1..n -> NodeDicts] : n \in 0..MaxNodes}

\* bool(d) of a dict or None.
Truthy(d) == d # None /\ DOMAIN d # {}

\* Variant of BatteryOk with the constraint written as 2.0 percent.
BatteryOkTenth(node) == Get(node, "battery_percent", 0) >= MIN_BATTERY_PERCENT \div 10

\* battery_ok = node.get('battery_percent', 0) >= MIN_BATTERY_PERCENT
BatteryOk(node) == Get(node, "battery_percent", 0) >= MIN_BATTERY_PERCENT

\* battery_ok and uncertainty > max_uncertainty
Replaces(node, uncertainty, maxu) == BatteryOk(node) /\ uncertainty > maxu

\* Variant of ShouldAct that acts at the threshold itself.
ShouldActAtThreshold(best, maxu) == Truthy(best) /\ maxu >= UNCERTAINTY_ACT_THRESHOLD

\* best_candidate and max_uncertainty > 0.6
ShouldAct(best, maxu) == Truthy(best) /\ maxu > UNCERTAINTY_ACT_THRESHOLD

\* Variant of HighHarvest that takes the threshold itself as high.
HighHarvestAtThreshold(best) ==
    Get(best, "harvest_potential", 0) >= HARVEST_HIGH_THRESHOLD

\* best_candidate.get('harvest_potential', 0) > 0.7
HighHarvest(best) == Get(best, "harvest_potential", 0) > HARVEST_HIGH_THRESHOLD

\* d[key] of a missing key.
KeyError(key) == [raised |-> "KeyError", key |-> key]

\* The WAKE_NODE branch.  The f-strings read best_candidate['node_id'] first;
\* the reasoning text is kept as the tuple of the values it interpolates.
WakeNode(best, maxu) ==
    IF "node_id" \notin DOMAIN best THEN KeyError("node_id")
    ELSE IF HighHarvest(best)
    THEN [action |-> "WAKE_NODE",
          target_node_id |-> best["node_id"],
          new_policy |-> "SENSE_HIGH",
          bo_parameters |-> [sampling_interval_s |-> 5, tx_power_dbm |-> 10],
          reasoning |-> <<best["node_id"], maxu, MIN_BATTERY_PERCENT,
                          best["harvest_potential"], "SENSE_HIGH">>]
    ELSE [action |-> "WAKE_NODE",
          target_node_id |-> best["node_id"],
          new_policy |-> "SENSE_LOW",
          bo_parameters |-> [sampling_interval_s |-> 30, tx_power_dbm |-> 5],
          reasoning |-> <<best["node_id"], maxu, MIN_BATTERY_PERCENT, "SENSE_LOW">>]

\* Variant of DoNothing that carries the optional keys with empty values.
DoNothingEmptyFields ==
    [action |-> "DO_NOTHING",
     target_node_id |-> "",
     new_policy |-> "",
     bo_parameters |-> EmptyDict,
     reasoning |-> "No node requires critical action."]

\* The fallback return.
DoNothing ==
    [action |-> "DO_NOTHING",
     reasoning |-> "No node requires critical action."]

LlmIdle ==
    /\ network_state = <<>>
    /\ idx = 1
    /\ best_candidate = None
    /\ max_uncertainty = 0 - 10000
    /\ pc = "idle"
    /\ result = None

\* simulate_llm_api_call entered with network_state parsed.
LlmInit ==
    /\ network_state \in NetworkStates
    /\ idx = 1
    /\ best_candidate = None
    /\ max_uncertainty = 0 - 10000
    /\ pc = "loop"
    /\ result = None

\* One iteration of  for node in network_state.
loop_body ==
    /\ pc = "loop"
    /\ idx <= Len(network_state)
    /\ LET node == network_state[idx]
           uncertainty == Get(node, "data_uncertainty", 0)
       IN  IF Replaces(node, uncertainty, max_uncertainty)
           THEN /\ max_uncertainty' = uncertainty
                /\ best_candidate' = node
           ELSE UNCHANGED <<max_uncertainty, best_candidate>>
    /\ idx' = idx + 1
    /\ UNCHANGED <<network_state, pc, result, node_vars>>

\* The decision point after the loop.
decision_point ==
    /\ pc = "loop"
    /\ idx > Len(network_state)
    /\ result' = IF ShouldAct(best_candidate, max_uncertainty)
                 THEN WakeNode(best_candidate, max_uncertainty)
                 ELSE DoNothing
    /\ pc' = "done"
    /\ UNCHANGED <<network_state, idx, best_candidate, max_uncertainty, node_vars>>

NodeIdle ==
    /\ state = NodeState("Node_42", MAX_CAPACITY)
    /\ last_op = [op |-> "__init__", arg |-> MAX_CAPACITY]
    /\ now = 0
    /\ returned = None

Init == NodeInit /\ LlmIdle

Next ==
    \/ \E d \in Durations : update_state(d)
    \/ \E p \in PolicyArgs : set_policy(p)
    \/ to_json
    \/ \E h \in HarvestValues : write_harvest_potential(h)
    \/ \E u \in UncertaintyValues : write_data_uncertainty(u)

\* The node simulator under every sequence of calls.
Spec == Init /\ [][Next]_vars

DecideInit == NodeIdle /\ LlmInit

DecideNext == loop_body \/ decision_point

\* simulate_llm_api_call on every network_state of NetworkStates.
DecideSpec == DecideInit /\ [][DecideNext]_vars

(***************************************************************************)
(* Properties of simulate_llm_api_call, checked under DecideSpec           *)
(***************************************************************************)

Returned == pc = "done"
IsCommand == Returned /\ "action" \in DOMAIN result
Wakes == IsCommand /\ result.action = "WAKE_NODE"
Positions == 1..Len(network_state)

\* Position i holds a battery_percent of at least 20.0.
Eligible(i) ==
    /\ "battery_percent" \in DOMAIN network_state[i]
    /\ network_state[i].battery_percent >= 2000

\* Position i holds a data_uncertainty above 0.6.
Uncertain(i) ==
    /\ "data_uncertainty" \in DOMAIN network_state[i]
    /\ network_state[i].data_uncertainty > 6000

\* data_uncertainty at position i, 0 when the key is missing.
UncertaintyAt(i) ==
    IF "data_uncertainty" \in DOMAIN network_state[i]
    THEN network_state[i].data_uncertainty ELSE 0

\* The earliest position among the eligible ones of maximal data_uncertainty.
IsFirstMax(i) ==
    /\ Eligible(i)
    /\ \A j \in Positions : Eligible(j) => UncertaintyAt(j) <= UncertaintyAt(i)
    /\ \A j \in 1..(i - 1) : Eligible(j) => UncertaintyAt(j) < UncertaintyAt(i)

\* No other position carries the node_id of position i.
UniqueId(i) ==
    \A j \in Positions \ {i} :
        "node_id" \in DOMAIN network_state[j]
            => network_state[j].node_id # network_state[i].node_id

\* C1: a node dict whose battery_percent is below 20.0 is never the one
\* selected, during the scan or at the return, whatever its data_uncertainty:
\* the selected dict is an element of network_state with battery_percent >=
\* 20.0, the command targets its node_id, and where node_ids are unique no dict
\* below 20.0 carries the target_node_id.
C1_LowBatteryNeverTarget ==
    /\ best_candidate # None =>
          /\ \E i \in Positions : network_state[i] = best_candidate
          /\ "battery_percent" \in DOMAIN best_candidate
          /\ best_candidate.battery_percent >= 2000
    /\ Wakes =>
          /\ result.target_node_id = best_candidate.node_id
          /\ \A i \in Positions :
                ( /\ "battery_percent" \in DOMAIN network_state[i]
                  /\ network_state[i].battery_percent < 2000
                  /\ "node_id" \in DOMAIN network_state[i]
                  /\ UniqueId(i) )
                => result.target_node_id # network_state[i].node_id

\* A wake command was returned although an earlier dict with higher
\* data_uncertainty sits at 19.99 percent.
C1_Witness ==
    /\ Wakes
    /\ Len(network_state) = 2
    /\ "battery_percent" \in DOMAIN network_state[1]
    /\ network_state[1].battery_percent = 1999
    /\ Uncertain(1)
    /\ Uncertain(2)
    /\ "node_id" \in DOMAIN network_state[1]
    /\ network_state[1].node_id # result.target_node_id

\* C3 as stated: whenever some dict has battery_percent >= 20.0 and
\* data_uncertainty > 0.6 the function returns WAKE_NODE, targeting the node_id
\* of the earliest eligible dict of maximal data_uncertainty.
C3_FirstMaxIsWoken ==
    (Returned /\ \E i \in Positions : Eligible(i) /\ Uncertain(i)) =>
        /\ Wakes
        /\ \E k \in Positions :
              /\ IsFirstMax(k)
              /\ "node_id" \in DOMAIN network_state[k]
              /\ result.target_node_id = network_state[k].node_id

\* The selection rule of C3 on its own: when a command is returned, it wakes
\* the earliest eligible dict of maximal data_uncertainty exactly when that
\* maximum is above 0.6.
FirstMaxWokenIfCommand ==
    (IsCommand /\ \E i \in Positions : Eligible(i) /\ Uncertain(i)) =>
        /\ Wakes
        /\ \E k \in Positions :
              /\ IsFirstMax(k)
              /\ network_state[k] = best_candidate
              /\ result.target_node_id = network_state[k].node_id

\* C4: if no dict is battery-eligible (the empty list included) or every
\* eligible dict has data_uncertainty <= 0.6, the function returns DO_NOTHING.
C4_ThresholdGate ==
    (Returned /\ \A i \in Positions : Eligible(i) => ~Uncertain(i)) =>
        /\ IsCommand
        /\ result.action = "DO_NOTHING"

\* DO_NOTHING was returned with an eligible dict at exactly 0.6.
C4_Witness ==
    /\ IsCommand
    /\ result.action = "DO_NOTHING"
    /\ \E i \in Positions :
          /\ Eligible(i)
          /\ "data_uncertainty" \in DOMAIN network_state[i]
          /\ network_state[i].data_uncertainty = 6000

\* C5: every WAKE_NODE command carries SENSE_HIGH with (5.0, 10.0) when the
\* selected dict's harvest_potential is above 0.7, and SENSE_LOW with
\* (30.0, 5.0) when it is at most 0.7 or missing.
C5_HarvestBranch ==
    Wakes =>
        /\ \E i \in Positions : network_state[i] = best_candidate
        /\ IF /\ "harvest_potential" \in DOMAIN best_candidate
              /\ best_candidate.harvest_potential > 7
           THEN /\ result.new_policy = "SENSE_HIGH"
                /\ result.bo_parameters =
                      [sampling_interval_s |-> 5, tx_power_dbm |-> 10]
           ELSE /\ result.new_policy = "SENSE_LOW"
                /\ result.bo_parameters =
                      [sampling_interval_s |-> 30, tx_power_dbm |-> 5]

\* A wake command for a dict whose harvest_potential is exactly 0.7.
C5_Witness ==
    /\ Wakes
    /\ "harvest_potential" \in DOMAIN best_candidate
    /\ best_candidate.harvest_potential = 7
    /\ result.new_policy = "SENSE_LOW"

\* C6: every command returned has action WAKE_NODE or DO_NOTHING and a
\* reasoning; target_node_id, new_policy and bo_parameters are all present
\* for WAKE_NODE and all absent for DO_NOTHING.
C6_CommandShape ==
    IsCommand =>
        /\ result.action \in {"WAKE_NODE", "DO_NOTHING"}
        /\ result.action = "WAKE_NODE" =>
              DOMAIN result = {"action", "target_node_id", "new_policy",
                               "bo_parameters", "reasoning"}
        /\ result.action = "DO_NOTHING" =>
              DOMAIN result = {"action", "reasoning"}

\* DO_NOTHING was returned for a non-empty network_state.
C6_Witness ==
    /\ IsCommand
    /\ result.action = "DO_NOTHING"
    /\ Len(network_state) = 2

\* C7 as stated: the function always returns a command, never raises.
C7_NeverRaises == Returned => IsCommand

(***************************************************************************)
(* Properties of IoTNodeSimulator, checked under Spec                      *)
(***************************************************************************)

\* C2 as stated: 0 <= battery_joules <= MAX_CAPACITY in every state, the one
\* right after construction included.
C2_BatteryInRange ==
    /\ 0 <= state.battery_joules
    /\ state.battery_joules <= 360000000

\* What is left of C2 in the code: the range holds once update_state has run.
\* (Lemma.)
BatteryInRangeAfterUpdate ==
    now > 0 => (0 <= state.battery_joules /\ state.battery_joules <= 360000000)

\* C8: set_policy(p) replaces current_policy by p when p is one of the five
\* policies, from any current policy, and changes nothing else; for any
\* other p the whole NodeState is unchanged.
C8_SetPolicy ==
    [][last_op'.op = "set_policy" =>
          IF last_op'.arg \in {"SLEEP", "WAKE_LISTEN", "SENSE_LOW",
                               "SENSE_HIGH", "TRANSMIT"}
          THEN state' = [state EXCEPT !.current_policy = last_op'.arg]
          ELSE state' = state]_vars

\* set_policy was called with an unknown policy on a node that is transmitting.
C8_Witness ==
    /\ last_op.op = "set_policy"
    /\ last_op.arg = "REBOOT"
    /\ state.current_policy = "TRANSMIT"

\* The power table of the claim, 1e-5 W; the SLEEP rate for any other policy.
ClaimedDraw(policy) ==
    CASE policy = "SLEEP" -> 1
      [] policy = "WAKE_LISTEN" -> 5000
      [] policy = "SENSE_LOW" -> 2000
      [] policy = "SENSE_HIGH" -> 15000
      [] policy = "TRANSMIT" -> 25000
      [] OTHER -> 1

\* C9: update_state(d) sets battery_joules to
\* clamp(battery_joules + (harvest_potential * HARVEST_RATE_MAX - draw) * d,
\* 0, MAX_CAPACITY); when the unclamped value is within the range the battery
\* changes by exactly that product; current_policy, harvest_potential and
\* data_uncertainty are unchanged.
C9_UpdateState ==
    [][last_op'.op = "update_state" =>
          LET delta == (state.harvest_potential * 50
                        - ClaimedDraw(state.current_policy)) * last_op'.arg
              unclamped == state.battery_joules + delta
          IN  /\ state'.battery_joules =
                    IF unclamped < 0 THEN 0
                    ELSE IF unclamped > 360000000 THEN 360000000
                    ELSE unclamped
              /\ (0 <= unclamped /\ unclamped <= 360000000)
                    => state'.battery_joules - state.battery_joules = delta
              /\ state'.current_policy = state.current_policy
              /\ state'.harvest_potential = state.harvest_potential
              /\ state'.data_uncertainty = state.data_uncertainty
              /\ state'.node_id = state.node_id]_vars

\* update_state ran with harvest and left the battery strictly inside the range.
C9_Witness ==
    /\ last_op.op = "update_state"
    /\ state.harvest_potential = 8
    /\ state.current_policy = "SENSE_LOW"
    /\ 0 < state.battery_joules
    /\ state.battery_joules < 360000000

\* C10: to_json leaves the NodeState unchanged, and the dict it returns is
\* fixed by the NodeState alone (so a second call with no mutation in between
\* returns the same dict): its battery_percent is battery_joules /
\* MAX_CAPACITY * 100 to the nearest hundredth, and its node_id,
\* current_policy and harvest_potential are those of the state.
C10_ToJson ==
    /\ [](returned # None =>
            /\ returned.node_id = state.node_id
            /\ returned.current_policy = state.current_policy
            /\ returned.harvest_potential = state.harvest_potential
            /\ 2 * (returned.battery_percent * 36000 - state.battery_joules) <= 36000
            /\ 2 * (state.battery_joules - returned.battery_percent * 36000) <= 36000)
    /\ [][last_op'.op = "to_json" => state' = state]_vars

\* to_json ran on a battery level that is not a whole hundredth of a percent.
C10_Witness ==
    /\ last_op.op = "to_json"
    /\ returned # None
    /\ state.battery_joules % 36000 > 18000
    /\ state.current_policy = "SENSE_HIGH"

=============================================================================
